---- MODULE Spec2Model ----
(***************************************************************************)
(* django-q-signals: the async_receiver decorator, the signal_handler      *)
(* wrapper it connects to Django signals, and the async_task_func bridge   *)
(* it installs in the handler's module for Django Q2 workers to run.       *)
(*                                                                         *)
(* Python values are tagged records ([t |-> "None"], [t |-> "int", ...]).  *)
(* A Python string that the code builds or splits is a sequence of tokens: *)
(* "tests.qsignalsmodel" is <<"tests", ".", "qsignalsmodel">>, so that     *)
(* f"{a}.{b}" is a concatenation and rsplit(".", 1) a search for the last  *)
(* "." token.                                                              *)
(***************************************************************************)
EXTENDS Integers, Sequences, FiniteSets, TLC

\* ------------------------------------------------------------------ bounds
MaxEvents == 1      \* signal sends in one behaviour
MaxQueue  == 2      \* tasks waiting in the Django Q2 queue at one time
MaxPk     == 1      \* primary keys 1..MaxPk
MaxSaves  == 4      \* saves of django_q whose post_save is still to be sent

\* ----------------------------------------------------------- Python values
None == [t |-> "None"]
StrV(s) == [t |-> "str", s |-> s]
IntV(n) == [t |-> "int", n |-> n]
BoolV(b) == [t |-> "bool", b |-> b]
FloatV(x) == [t |-> "float", x |-> x]
ListV(l) == [t |-> "list", l |-> l]
TupleV(l) == [t |-> "tuple", l |-> l]
DictV(d) == [t |-> "dict", d |-> d]
FrozensetV(s) == [t |-> "frozenset", s |-> s]
ObjectV(o) == [t |-> "object", o |-> o]
SignalV(n) == [t |-> "Signal", n |-> n]
FuncV(h) == [t |-> "function", kind |-> "func", h |-> h]
WrapperV(h, p) == [t |-> "function", kind |-> "signal_handler", h |-> h, task_path |-> p]
BridgeV(h, n) == [t |-> "function", kind |-> "async_task_func", h |-> h, name |-> n]

ModelV(app, name) == [t |-> "model", app |-> app, name |-> name]
InstanceV(m, pk, val) == [t |-> "instance", model |-> m, pk |-> pk, val |-> val]

EmptyDict == [k \in {} |-> None]
Range(f) == {f[i] : i \in DOMAIN f}

\* Python truthiness of the values the code tests with `if x`.
Truthy(x) ==
    CASE x.t = "None" -> FALSE
      [] x.t = "str" -> x.s # <<>>
      [] OTHER -> TRUE

\* ------------------------------------------------------------------ models
QSignalsModel == ModelV("tests", "qsignalsmodel")
Article == ModelV("demo", "article")
Task == ModelV("django_q", "task")
Models == {QSignalsModel, Article, Task}

PKs == 1..MaxPk
FieldVals == {"Test", "Updated"}
Fields == {"name", "value"}

\* ---------------------------------------------------------------- handlers
Handlers == {"h1", "h2"}
Script == <<"h1", "h2">>

func_name(h) == <<"handler">>
func_module(h) == <<"tests", ".", "test_async_receiver">>
iscoroutinefunction(h) == h = "h2"

post_save == SignalV("post_save")
post_delete == SignalV("post_delete")
Signals == {post_save, post_delete}

\* The arguments of async_receiver(signal, sender, **options) for each handler.
Registration(h) ==
    IF h = "h1"
    THEN [signal |-> ListV(<<post_save, post_delete>>), sender |-> QSignalsModel,
          options |-> EmptyDict]
    ELSE [signal |-> post_save, sender |-> None,
          options |-> ("weak" :> BoolV(FALSE))]

\* Signal.connect(receiver, sender=None, weak=True, dispatch_uid=None)
IsWeak(options) == IF "weak" \in DOMAIN options THEN options["weak"].b ELSE TRUE

VARIABLES
    pc,         \* the import-time thread running the decorators of Script
    attrs,      \* sys.modules[...] attributes: <<module, name>> -> function
    receivers,  \* Signal.receivers: signal -> sequence of [receiver, sender]
    returned,   \* what each decorator call returned to its caller
    collected,  \* wrappers that were garbage collected (weakly connected)
    db,         \* QSignalsModel table: pk -> field value, or None
    apps,       \* model classes installed in the running application
    queue,      \* tasks submitted with async_task and not yet run
    nfired,     \* signal sends so far
    last,       \* the last signal send and what its receivers did
    lastrun,    \* the last task a worker ran
    qsaves      \* saves of django_q's own models whose post_save is still to be sent

vars == <<pc, attrs, receivers, returned, collected, db, apps, queue, nfired, last, lastrun,
         qsaves>>

\* ------------------------------------------------------- string operations
HasDot(s) == \E i \in 1..Len(s) : s[i] = "."
LastDot(s) == CHOOSE i \in 1..Len(s) : s[i] = "." /\ \A j \in (i+1)..Len(s) : s[j] # "."

\* s.rsplit(".", 1) of a string that holds a "."
rsplit(s) == <<SubSeq(s, 1, LastDot(s) - 1), SubSeq(s, LastDot(s) + 1, Len(s))>>

\* dict.get(key), whose default is None
Get(d, k) == IF k \in DOMAIN d THEN d[k] ELSE None

\* The orders in which iterating a set may yield its elements.
Orders(S) == {q \in [1..Cardinality(S) -> S] : \A i, j \in 1..Cardinality(S) : q[i] = q[j] => i = j}

\* ------------------------------------------------------ _get_model_label
\* f"{model._meta.app_label}.{model._meta.model_name}" if model else None
MetaOf(x) == IF x.t = "instance" THEN x.model ELSE x

_get_model_label(model) ==
    IF Truthy(model)
    THEN StrV(<<MetaOf(model).app, ".", MetaOf(model).name>>)
    ELSE None

\* ------------------------------------------------ _serialize_signal_kwargs
\* An isinstance check that leaves tuple out.
IsSerializableType_NoTuple(value) ==
    value.t \in {"str", "int", "float", "bool", "list", "dict", "None"}

\* isinstance(value, str | int | float | bool | list | dict | tuple | type(None))
IsSerializableType(value) ==
    value.t \in {"str", "int", "float", "bool", "list", "dict", "tuple", "None"}

\* list(value): of a frozenset, its elements in the order `ord` iterates them
ToList(value, ord) ==
    CASE value.t = "frozenset" -> ListV(ord)
      [] value.t = "list" -> value
      [] OTHER -> ListV(<<>>)

\* A serializer that turns update_fields into a list whatever its value,
\* as list(value or ()) would.
_serialize_signal_kwargs_AlwaysList(kwargs, ord) ==
    LET kept == {key \in DOMAIN kwargs :
                    /\ key \notin {"signal", "sender", "instance"}
                    /\ \/ key = "update_fields"
                       \/ IsSerializableType(kwargs[key])}
    IN [key \in kept |->
            IF key = "update_fields"
            THEN ToList(kwargs[key], ord)
            ELSE kwargs[key]]

\* A serializer without the skip of lines 138-139.
_serialize_signal_kwargs_NoSkip(kwargs, ord) ==
    LET kept == {key \in DOMAIN kwargs :
                    \/ (key = "update_fields" /\ kwargs[key] # None)
                    \/ IsSerializableType(kwargs[key])}
    IN [key \in kept |->
            IF key = "update_fields" /\ kwargs[key] # None
            THEN ToList(kwargs[key], ord)
            ELSE kwargs[key]]

_serialize_signal_kwargs(kwargs, ord) ==
    LET kept == {key \in DOMAIN kwargs :
                    /\ key \notin {"signal", "sender", "instance"}
                    /\ \/ (key = "update_fields" /\ kwargs[key] # None)
                       \/ IsSerializableType(kwargs[key])}
    IN [key \in kept |->
            IF key = "update_fields" /\ kwargs[key] # None
            THEN ToList(kwargs[key], ord)
            ELSE kwargs[key]]

\* ------------------------------------------- _create_async_task_wrapper
task_name_of(h) == func_name(h) \o <<"_task">>

\* A task path that names the handler, not the bridge installed beside it.
task_path_of_Handler(h) == func_module(h) \o <<".">> \o func_name(h)

task_path_of(h) == func_module(h) \o <<".">> \o task_name_of(h)

\* ---------------------------------------------------------- signal_handler
\* A wrapper without the django_q guard of lines 52-54.
signal_handler_NoGuard(w, kwargs, ord) ==
    [steps |-> <<"labels", "serialize", "async_task">>,
     task |-> [t |-> "task",
               func |-> w.task_path,
               sender_label |-> _get_model_label(Get(kwargs, "sender")),
               instance_label |-> _get_model_label(Get(kwargs, "instance")),
               instance_id |-> IF Truthy(Get(kwargs, "instance"))
                               THEN Get(kwargs, "instance").pk ELSE None,
               signal_kwargs |-> _serialize_signal_kwargs(kwargs, ord)],
     ret |-> None]

\* A wrapper that calls the function itself and submits nothing.
signal_handler_Inline(w, kwargs, ord) ==
    IF Truthy(Get(kwargs, "sender")) /\ Get(kwargs, "sender").app = "django_q"
    THEN [steps |-> <<"guard">>, task |-> None, ret |-> None]
    ELSE [steps |-> <<"guard", "handler">>, task |-> None, ret |-> None]

\* One call of the wrapper `w` with the keyword arguments Signal.send passes.
\* steps: the statements it ran; task: what it gave async_task (None: nothing).
signal_handler(w, kwargs, ord) ==
    LET sender == Get(kwargs, "sender")
        instance == Get(kwargs, "instance")
    IN IF Truthy(sender) /\ sender.app = "django_q"
       THEN [steps |-> <<"guard">>, task |-> None, ret |-> None]
       ELSE [steps |-> <<"guard", "labels", "serialize", "async_task">>,
             task |-> [t |-> "task",
                       func |-> w.task_path,
                       sender_label |-> _get_model_label(sender),
                       instance_label |-> _get_model_label(instance),
                       instance_id |-> IF Truthy(instance) THEN instance.pk ELSE None,
                       signal_kwargs |-> _serialize_signal_kwargs(kwargs, ord)],
             ret |-> None]

\* --------------------------------------------------------- async_task_func
NoRow == "<no row>"

\* apps.get_model(app_label, model_name): the installed model, or LookupError
get_model(app_label, model_name, installed) ==
    LET found == {m \in installed : <<m.app>> = app_label /\ <<m.name>> = model_name}
    IN IF found = {}
       THEN [ok |-> FALSE, value |-> None]
       ELSE [ok |-> TRUE, value |-> CHOOSE m \in found : TRUE]

\* A lookup that answers with the field values the event's object had.
objects_get_Stale(model_class, instance_id, rows) ==
    IF /\ model_class = QSignalsModel
       /\ instance_id.t = "int"
       /\ instance_id.n \in DOMAIN rows
       /\ rows[instance_id.n] # NoRow
    THEN [ok |-> TRUE, value |-> InstanceV(model_class, instance_id, "Test")]
    ELSE [ok |-> FALSE, value |-> None]

\* model_class.objects.get(pk=instance_id): the live row, or DoesNotExist
objects_get(model_class, instance_id, rows) ==
    IF /\ model_class = QSignalsModel
       /\ instance_id.t = "int"
       /\ instance_id.n \in DOMAIN rows
       /\ rows[instance_id.n] # NoRow
    THEN [ok |-> TRUE, value |-> InstanceV(model_class, instance_id, rows[instance_id.n])]
    ELSE [ok |-> FALSE, value |-> None]

\* What the user's function returns (handlers are inputs of the decorator).
HandlerResult(h) == IF h = "h1" THEN None ELSE IntV(1)

\* A coroutine object: what calling a coroutine function returns before any of
\* its body has run.
CoroutineV(h) == [t |-> "coroutine", h |-> h]

\* A bridge that calls the function as it is, coroutine function or not.
WrapHandler_Direct(h) == "direct"

\* handler = async_to_sync(func) if iscoroutinefunction(func) else func (line 85)
WrapHandler(h) == IF iscoroutinefunction(h) THEN "async_to_sync" ELSE "direct"

\* handler(sender, instance, **signal_kwargs) (line 119). A function's body
\* has run when the call returns; a coroutine function's has only if
\* async_to_sync drove it, and a direct call returns the coroutine object.
CallHandler(h, sender, instance, signal_kwargs) ==
    LET via == WrapHandler(h)
        ran == via = "async_to_sync" \/ ~iscoroutinefunction(h)
    IN IF {"sender", "instance"} \cap DOMAIN signal_kwargs # {}
       THEN [outcome |-> "TypeError", call |-> None, result |-> None]
       ELSE [outcome |-> "returned",
             call |-> [t |-> "call",
                       func |-> h,
                       via |-> via,
                       ran |-> ran,
                       sender |-> sender,
                       instance |-> instance,
                       kwargs |-> signal_kwargs],
             result |-> IF ran THEN HandlerResult(h) ELSE CoroutineV(h)]

\* A bridge that hands the handler no sender.
ReconstructSender_Dropped(sender_label, installed) == [ok |-> TRUE, value |-> None]

\* reconstruct sender (lines 94-97)
ReconstructSender(sender_label, installed) ==
    IF Truthy(sender_label)
    THEN get_model(rsplit(sender_label.s)[1], rsplit(sender_label.s)[2], installed)
    ELSE [ok |-> TRUE, value |-> None]

\* A bridge whose DoesNotExist branch leaves the kwargs alone.
ReconstructInstance_NoPk(instance_label, instance_id, signal_kwargs, installed, rows) ==
    IF Truthy(instance_label)
    THEN LET model_class == get_model(rsplit(instance_label.s)[1],
                                      rsplit(instance_label.s)[2], installed)
             got == objects_get(model_class.value, instance_id, rows)
         IN [ok |-> model_class.ok, value |-> IF got.ok THEN got.value ELSE None,
             signal_kwargs |-> signal_kwargs]
    ELSE [ok |-> TRUE, value |-> None, signal_kwargs |-> signal_kwargs]

\* A bridge that looks the row up whether or not the payload has a label.
ReconstructInstance_NoLabelCheck(instance_label, instance_id, signal_kwargs, installed, rows) ==
    LET model_class == IF Truthy(instance_label)
                       THEN get_model(rsplit(instance_label.s)[1],
                                      rsplit(instance_label.s)[2], installed)
                       ELSE [ok |-> TRUE, value |-> None]
        got == objects_get(model_class.value, instance_id, rows)
    IN IF ~model_class.ok
       THEN [ok |-> FALSE, value |-> None, signal_kwargs |-> signal_kwargs]
       ELSE IF got.ok
       THEN [ok |-> TRUE, value |-> got.value, signal_kwargs |-> signal_kwargs]
       ELSE [ok |-> TRUE, value |-> None,
             signal_kwargs |-> ("_instance_pk" :> instance_id) @@ signal_kwargs]

\* A bridge whose try block starts a line early and catches every exception.
ReconstructInstance_CatchAll(instance_label, instance_id, signal_kwargs, installed, rows) ==
    IF Truthy(instance_label)
    THEN LET model_class == get_model(rsplit(instance_label.s)[1],
                                      rsplit(instance_label.s)[2], installed)
             got == objects_get(model_class.value, instance_id, rows)
         IN IF model_class.ok /\ got.ok
            THEN [ok |-> TRUE, value |-> got.value, signal_kwargs |-> signal_kwargs]
            ELSE [ok |-> TRUE, value |-> None,
                  signal_kwargs |-> ("_instance_pk" :> instance_id) @@ signal_kwargs]
    ELSE [ok |-> TRUE, value |-> None, signal_kwargs |-> signal_kwargs]

\* A bridge that records the primary key whenever it has an instance label,
\* row or no row.
ReconstructInstance_AlwaysPk(instance_label, instance_id, signal_kwargs, installed, rows) ==
    IF Truthy(instance_label)
    THEN LET model_class == get_model(rsplit(instance_label.s)[1],
                                      rsplit(instance_label.s)[2], installed)
             got == objects_get(model_class.value, instance_id, rows)
         IN IF ~model_class.ok
            THEN [ok |-> FALSE, value |-> None, signal_kwargs |-> signal_kwargs]
            ELSE [ok |-> TRUE, value |-> got.value,
                  signal_kwargs |-> ("_instance_pk" :> instance_id) @@ signal_kwargs]
    ELSE [ok |-> TRUE, value |-> None, signal_kwargs |-> signal_kwargs]

\* A DoesNotExist branch that starts the keyword arguments afresh.
ReconstructInstance_FreshKwargs(instance_label, instance_id, signal_kwargs, installed, rows) ==
    IF Truthy(instance_label)
    THEN LET model_class == get_model(rsplit(instance_label.s)[1],
                                      rsplit(instance_label.s)[2], installed)
             got == objects_get(model_class.value, instance_id, rows)
         IN IF ~model_class.ok
            THEN [ok |-> FALSE, value |-> None, signal_kwargs |-> signal_kwargs]
            ELSE IF got.ok
            THEN [ok |-> TRUE, value |-> got.value, signal_kwargs |-> signal_kwargs]
            ELSE [ok |-> TRUE, value |-> None,
                  signal_kwargs |-> ("_instance_pk" :> instance_id)]
    ELSE [ok |-> TRUE, value |-> None, signal_kwargs |-> signal_kwargs]

\* reconstruct instance (lines 100-110): the instance and the signal_kwargs
\* dict as the DoesNotExist branch leaves it
ReconstructInstance(instance_label, instance_id, signal_kwargs, installed, rows) ==
    IF Truthy(instance_label)
    THEN LET model_class == get_model(rsplit(instance_label.s)[1],
                                      rsplit(instance_label.s)[2], installed)
             got == objects_get(model_class.value, instance_id, rows)
         IN IF ~model_class.ok
            THEN [ok |-> FALSE, value |-> None, signal_kwargs |-> signal_kwargs]
            ELSE IF got.ok
            THEN [ok |-> TRUE, value |-> got.value, signal_kwargs |-> signal_kwargs]
            ELSE [ok |-> TRUE, value |-> None,
                  signal_kwargs |-> ("_instance_pk" :> instance_id) @@ signal_kwargs]
    ELSE [ok |-> TRUE, value |-> None, signal_kwargs |-> signal_kwargs]

\* A bridge that hands update_fields on as the list it was sent as.
ReconstructUpdateFields_Kept(signal_kwargs) == signal_kwargs

\* reconstruct update_fields back into a frozenset (lines 112-117)
ReconstructUpdateFields(signal_kwargs) ==
    IF "update_fields" \in DOMAIN signal_kwargs /\ signal_kwargs["update_fields"] # None
    THEN ("update_fields" :> FrozensetV(Range(signal_kwargs["update_fields"].l)))
             @@ signal_kwargs
    ELSE signal_kwargs

\* A bridge whose last line lacks the return.
async_task_func_NoReturn(h, sender_label, instance_label, instance_id, signal_kwargs, installed, rows) ==
    LET sender == ReconstructSender(sender_label, installed)
        instance == ReconstructInstance(instance_label, instance_id, signal_kwargs,
                                        installed, rows)
        kw == ReconstructUpdateFields(instance.signal_kwargs)
        called == CallHandler(h, sender.value, instance.value, kw)
    IN IF ~sender.ok \/ ~instance.ok
       THEN [outcome |-> "LookupError", call |-> None, calls |-> <<>>, result |-> None,
             signal_kwargs |-> signal_kwargs]
       ELSE [outcome |-> called.outcome, call |-> called.call,
             calls |-> IF called.outcome = "returned" THEN <<called.call>> ELSE <<>>,
             result |-> None, signal_kwargs |-> kw]

\* The bridge of handler h run by a worker on a task's four arguments: how it
\* ended, the calls of the handler it made (call is the last), what it
\* returned, and the signal_kwargs dict as it left it.
async_task_func(h, sender_label, instance_label, instance_id, signal_kwargs, installed, rows) ==
    LET sender == ReconstructSender(sender_label, installed)
        instance == ReconstructInstance(instance_label, instance_id, signal_kwargs,
                                        installed, rows)
        kw == ReconstructUpdateFields(instance.signal_kwargs)
        called == CallHandler(h, sender.value, instance.value, kw)
    IN IF ~sender.ok
       THEN [outcome |-> "LookupError", call |-> None, calls |-> <<>>, result |-> None,
             signal_kwargs |-> signal_kwargs]
       ELSE IF ~instance.ok
       THEN [outcome |-> "LookupError", call |-> None, calls |-> <<>>, result |-> None,
             signal_kwargs |-> signal_kwargs]
       ELSE [outcome |-> called.outcome, call |-> called.call,
             calls |-> IF called.outcome = "returned" THEN <<called.call>> ELSE <<>>,
             result |-> called.result, signal_kwargs |-> kw]

\* ------------------------------------------------------------------ inputs
Senders == {None} \cup Models

\* The instance a signal carries: no such keyword, None, a saved row's object,
\* or an object that was never saved (its pk is None).
InstanceChoices ==
    {EmptyDict, "instance" :> None, "instance" :> InstanceV(QSignalsModel, None, "Test")}
        \cup {"instance" :> InstanceV(QSignalsModel, IntV(pk), "Test") : pk \in PKs}

\* The other keyword arguments of a send: none, post_save's, a save with
\* update_fields, post_delete's origin (a live object).
\* A custom send whose keywords carry one value of each kind: the eight the
\* wrapper keeps and four it does not.
MixedKwargs ==
    ("using" :> StrV(<<"default">>)) @@ ("count" :> IntV(2)) @@ ("ratio" :> FloatV("0.5"))
        @@ ("raw" :> BoolV(FALSE)) @@ ("tags" :> ListV(<<StrV(<<"a">>)>>))
        @@ ("meta" :> DictV("k" :> IntV(1))) @@ ("pair" :> TupleV(<<IntV(1), IntV(2)>>))
        @@ ("nothing" :> None) @@ ("origin" :> ObjectV("origin"))
        @@ ("changed" :> FrozensetV({"name"})) @@ ("model" :> QSignalsModel)
        @@ ("related" :> InstanceV(QSignalsModel, IntV(1), "Test"))

\* A custom send whose list, tuple and dict hold live objects.
NestedKwargs ==
    ("tags" :> ListV(<<ObjectV("row")>>)) @@ ("pair" :> TupleV(<<IntV(1), ObjectV("row")>>))
        @@ ("meta" :> DictV("k" :> InstanceV(QSignalsModel, IntV(1), "Test")))

OtherChoices ==
    {EmptyDict,
     ("created" :> BoolV(TRUE)) @@ ("update_fields" :> None),
     "origin" :> ObjectV("origin"),
     MixedKwargs,
     NestedKwargs}
        \cup {("created" :> BoolV(FALSE)) @@ ("update_fields" :> FrozensetV(F)) :
                 F \in SUBSET Fields}

UpdateFieldsOf(named) ==
    IF "update_fields" \in DOMAIN named /\ named["update_fields"].t = "frozenset"
    THEN named["update_fields"].s
    ELSE {}

\* ----------------------------------------------------------------- initial
NoEvent == [t |-> "NoEvent", id |-> 0]
NoRun == [t |-> "NoRun"]

Init ==
    /\ pc = [i |-> 1, at |-> "create", k |-> 0, task_path |-> <<>>]
    /\ attrs = [x \in {} |-> None]
    /\ receivers = [s \in Signals |-> <<>>]
    /\ returned = [h \in Handlers |-> None]
    /\ collected = {}
    /\ db = [pk \in PKs |-> NoRow]
    /\ apps = Models
    /\ queue = <<>>
    /\ nfired = 0
    /\ last = NoEvent
    /\ lastrun = NoRun
    /\ qsaves = 0

\* ------------------------------------------------- async_receiver.decorator
\* isinstance(signal, (list, tuple)): the signals to connect, in order
SignalsOf(signal) == IF signal.t \in {"list", "tuple"} THEN signal.l ELSE <<signal>>

\* A _create_async_task_wrapper that builds the bridge and never stores it.
InstallBridge_NoSetattr(h, a) == a

\* setattr(module, task_name, async_task_func) of _create_async_task_wrapper
InstallBridge(h, a) ==
    (<<func_module(h), task_name_of(h)>> :> BridgeV(h, task_name_of(h))) @@ a

\* Signal.connect: appended unless the same receiver is already connected to
\* the signal for the same sender.
Connect(rs, w, sender, options) ==
    IF \E i \in 1..Len(rs) : rs[i].receiver = w /\ rs[i].sender = sender
    THEN rs
    ELSE Append(rs, [receiver |-> w, sender |-> sender, weak |-> IsWeak(options)])

\* A decorator that forgets to pass its sender on.
ConnectArgs_NoSender(reg) == [sender |-> None, options |-> reg.options]

\* What lines 72 and 74 pass on to Signal.connect: sender=sender, **options
ConnectArgs(reg) == [sender |-> reg.sender, options |-> reg.options]

\* line 45: task_path = _create_async_task_wrapper(func)
DecoratorCreate ==
    /\ pc.i <= Len(Script)
    /\ pc.at = "create"
    /\ LET h == Script[pc.i]
       IN /\ attrs' = InstallBridge(h, attrs)
          /\ pc' = [pc EXCEPT !.at = IF SignalsOf(Registration(h).signal) = <<>>
                                     THEN "return" ELSE "connect",
                              !.k = 1,
                              !.task_path = task_path_of(h)]
    /\ UNCHANGED <<receivers, returned, collected, db, apps, queue, nfired, last, lastrun, qsaves>>

\* lines 70-74: receiver(s, sender=sender, **options)(signal_handler), one signal
DecoratorConnect ==
    /\ pc.i <= Len(Script)
    /\ pc.at = "connect"
    /\ LET h == Script[pc.i]
           reg == Registration(h)
           sigs == SignalsOf(reg.signal)
           s == sigs[pc.k]
       IN /\ receivers' = [receivers EXCEPT ![s] =
                              Connect(@, WrapperV(h, pc.task_path),
                                      ConnectArgs(reg).sender, ConnectArgs(reg).options)]
          /\ pc' = IF pc.k = Len(sigs)
                   THEN [pc EXCEPT !.at = "return"]
                   ELSE [pc EXCEPT !.k = pc.k + 1]
    /\ UNCHANGED <<attrs, returned, collected, db, apps, queue, nfired, last, lastrun, qsaves>>

\* A decorator that returns the wrapper, as decorators usually do.
DecoratorResult_Wrapper(h) == WrapperV(h, task_path_of(h))

\* The value the decorator hands back (line 76: return func).
DecoratorResult(h) == FuncV(h)

\* line 76: return func
DecoratorReturn ==
    /\ pc.i <= Len(Script)
    /\ pc.at = "return"
    /\ returned' = [returned EXCEPT ![Script[pc.i]] = DecoratorResult(Script[pc.i])]
    /\ pc' = [i |-> pc.i + 1, at |-> "create", k |-> 0, task_path |-> <<>>]
    /\ UNCHANGED <<attrs, receivers, collected, db, apps, queue, nfired, last, lastrun, qsaves>>

\* signal_handler is a local function of decorator: once decorator has
\* returned, a signal that holds it weakly (weak=True, connect's default) holds
\* the only reference, and the interpreter may free it.
IsConnected(h, s) == \E i \in 1..Len(receivers[s]) : receivers[s][i].receiver.h = h

CollectWrapper(h) ==
    /\ returned[h] # None
    /\ h \notin collected
    /\ \E s \in Signals : IsConnected(h, s)
    /\ \A s \in Signals : \A i \in 1..Len(receivers[s]) :
           receivers[s][i].receiver.h = h => receivers[s][i].weak
    /\ collected' = collected \cup {h}
    /\ UNCHANGED <<pc, attrs, receivers, returned, db, apps, queue, nfired, last, lastrun, qsaves>>

\* ------------------------------------------------------------- Signal.send
\* The receivers Signal.send calls for `sender`: connected for every sender or
\* for this one, and not garbage collected.
LiveReceivers(s, sender) ==
    LET Live(r) == /\ r.receiver.h \notin collected
                   /\ (r.sender = None \/ r.sender = sender)
    IN SelectSeq(receivers[s], Live)

\* Django Q2 resolves a task's func string: module, func = f.rsplit(".", 1),
\* then getattr(import_module(module), func).
Resolve(path, a) ==
    IF HasDot(path) /\ <<rsplit(path)[1], rsplit(path)[2]>> \in DOMAIN a
    THEN a[<<rsplit(path)[1], rsplit(path)[2]>>]
    ELSE None

\* A worker calls the function a task's path names with the task's arguments.
\* rows and installed record what the worker saw.
RunTask(e, a, installed, rows) ==
    LET f == Resolve(e.task.func, a)
        r == async_task_func(f.h, e.task.sender_label, e.task.instance_label,
                             e.task.instance_id, e.task.signal_kwargs, installed, rows)
    IN IF f = None
       THEN [t |-> "run", entry |-> e, bridge |-> None,
             outcome |-> "AttributeError", call |-> None, calls |-> <<>>,
             result |-> None, signal_kwargs |-> e.task.signal_kwargs,
             rows |-> rows, installed |-> installed]
       ELSE [t |-> "run", entry |-> e, bridge |-> f,
             outcome |-> r.outcome, call |-> r.call, calls |-> r.calls,
             result |-> r.result, signal_kwargs |-> r.signal_kwargs,
             rows |-> rows, installed |-> installed]

\* A send of signal s: every live receiver is called with signal=s,
\* sender=sender and the named arguments. Each task a wrapper hands to
\* async_task joins the queue; with Q_CLUSTER's sync option set async_task
\* runs the task itself before it returns to the wrapper, and `inline` is that
\* run. by, ev, event and existed record where a task came from; the worker
\* never reads them.
Send(s, sender, named, ord, sync, id) ==
    LET kwargs == ("signal" :> s) @@ ("sender" :> sender) @@ named
        live == LiveReceivers(s, sender)
        instance == Get(named, "instance")
        Entry(h, task) ==
            [task |-> task, by |-> h, ev |-> id,
             event |-> [signal |-> s, sender |-> sender, kwargs |-> kwargs],
             existed |-> /\ instance.t = "instance"
                         /\ objects_get(instance.model, instance.pk, db).ok]
        Delivery(w) ==
            LET did == signal_handler(w, kwargs, ord)
            IN [h |-> w.h,
                did |-> did,
                inline |-> IF sync /\ did.task # None
                           THEN RunTask(Entry(w.h, did.task), attrs, apps, db)
                           ELSE NoRun]
        deliveries == [i \in 1..Len(live) |-> Delivery(live[i].receiver)]
        Submits(d) == d.did.task # None
        submitted == SelectSeq(deliveries, Submits)
        entries == IF sync
                   THEN <<>>
                   ELSE [i \in 1..Len(submitted) |->
                            Entry(submitted[i].h, submitted[i].did.task)]
    IN /\ Len(queue) + Len(entries) <= MaxQueue
       /\ queue' = queue \o entries
       /\ last' = [t |-> "event", id |-> id, signal |-> s, sender |-> sender,
                   kwargs |-> kwargs, sync |-> sync, deliveries |-> deliveries]
       /\ lastrun' = IF sync /\ submitted # <<>>
                     THEN submitted[Len(submitted)].inline
                     ELSE lastrun

\* A signal is sent in a process whose tasks go to the cluster.
Fire ==
    /\ nfired < MaxEvents
    /\ \E s \in Signals, sender \in Senders, inst \in InstanceChoices, other \in OtherChoices :
           \E ord \in Orders(UpdateFieldsOf(other)) :
               Send(s, sender, inst @@ other, ord, FALSE, nfired + 1)
    /\ nfired' = nfired + 1
    /\ UNCHANGED <<pc, attrs, receivers, returned, collected, db, apps, qsaves>>

\* ------------------------------------------------------------------ worker
RemoveAt(q, i) == SubSeq(q, 1, i - 1) \o SubSeq(q, i + 1, Len(q))

\* A worker takes a queued task and runs it.
Execute ==
    /\ \E i \in 1..Len(queue) :
          /\ queue' = RemoveAt(queue, i)
          /\ lastrun' = RunTask(queue[i], attrs, apps, db)
    /\ UNCHANGED <<pc, attrs, receivers, returned, collected, db, apps, nfired, last, qsaves>>

\* ------------------------------------------------------------- environment
\* A row is created or changed (QSignalsModel.objects.create, instance.save).
SaveRecord ==
    /\ \E pk \in PKs, val \in FieldVals :
          /\ db[pk] # val
          /\ db' = [db EXCEPT ![pk] = val]
    /\ UNCHANGED <<pc, attrs, receivers, returned, collected, apps, queue, nfired, last, lastrun, qsaves>>

\* A row is deleted (instance.delete()).
DeleteRecord ==
    /\ \E pk \in PKs :
          /\ db[pk] # NoRow
          /\ db' = [db EXCEPT ![pk] = NoRow]
    /\ UNCHANGED <<pc, attrs, receivers, returned, collected, apps, queue, nfired, last, lastrun, qsaves>>

Removable == {QSignalsModel, Article}

\* The running application stops installing a model whose label a queued task
\* may still carry.
RemoveModel ==
    /\ \E m \in apps \cap Removable : apps' = apps \ {m}
    /\ UNCHANGED <<pc, attrs, receivers, returned, collected, db, queue, nfired, last, lastrun, qsaves>>

Next ==
    \/ DecoratorCreate
    \/ DecoratorConnect
    \/ DecoratorReturn
    \/ \E h \in Handlers : CollectWrapper(h)
    \/ Fire
    \/ Execute
    \/ SaveRecord
    \/ DeleteRecord
    \/ RemoveModel

Spec == Init /\ [][Next]_vars

\* ---------------------------------------------------- Q_CLUSTER["sync"]
\* A signal is sent in a process whose Q_CLUSTER has sync set, as the test
\* settings have, or not set, as demo.py's.
FireSync ==
    /\ nfired < MaxEvents
    /\ \E s \in Signals, sender \in Senders, inst \in InstanceChoices, other \in OtherChoices :
           \E ord \in Orders(UpdateFieldsOf(other)), sync \in BOOLEAN :
               Send(s, sender, inst @@ other, ord, sync, nfired + 1)
    /\ nfired' = nfired + 1
    /\ UNCHANGED <<pc, attrs, receivers, returned, collected, db, apps, qsaves>>

NextSync ==
    \/ DecoratorCreate
    \/ DecoratorConnect
    \/ DecoratorReturn
    \/ \E h \in Handlers : CollectWrapper(h)
    \/ FireSync
    \/ Execute
    \/ SaveRecord
    \/ DeleteRecord
    \/ RemoveModel

SpecSync == Init /\ [][NextSync]_vars

\* ------------------------------------------------- the queue's own signals
\* Django Q2 keeps queued tasks and their results in models of its own app
\* (demo.py imports django_q.models.Task). Saving one sends post_save with a
\* django_q sender to every receiver of post_save, the wrappers included; the
\* guard of lines 52-54 is there for these sends.

\* An application sends a signal; the broker stores each submitted task.
AppSend ==
    /\ nfired < MaxEvents
    /\ \E s \in Signals, sender \in Senders \ {Task}, inst \in InstanceChoices :
           Send(s, sender, inst, <<>>, FALSE, nfired + 1)
    /\ nfired' = nfired + 1
    /\ qsaves' = qsaves + (Len(queue') - Len(queue))
    /\ qsaves' <= MaxSaves
    /\ UNCHANGED <<pc, attrs, receivers, returned, collected, db, apps>>

\* The post_save of one of django_q's saves is sent. A task a wrapper submits
\* for it is stored in turn.
QueueSignal ==
    /\ qsaves > 0
    /\ Send(post_save, Task,
            ("instance" :> InstanceV(Task, IntV(1), "Test")) @@ ("created" :> BoolV(TRUE)),
            <<>>, FALSE, 0)
    /\ qsaves' = qsaves - 1 + (Len(queue') - Len(queue))
    /\ qsaves' <= MaxSaves
    /\ UNCHANGED <<pc, attrs, receivers, returned, collected, db, apps, nfired>>

\* A worker takes the i-th queued task; the cluster will save its result.
TakeTask(i) ==
    /\ qsaves < MaxSaves
    /\ queue' = RemoveAt(queue, i)
    /\ qsaves' = qsaves + 1
    /\ UNCHANGED <<pc, attrs, receivers, returned, collected, db, apps, nfired, last>>

\* A worker runs a queued task and the cluster saves its result.
ExecuteAndSave ==
    \E i \in 1..Len(queue) :
        /\ TakeTask(i)
        /\ lastrun' = RunTask(queue[i], attrs, apps, db)

\* ExecuteAndSave as the queue sees it: the steps of NextLoop that take a task
\* are the steps of ExecuteAndSave, and one is enabled when the other is.
WorkerTakes == \E i \in 1..Len(queue) : TakeTask(i)

NextLoop ==
    \/ DecoratorCreate
    \/ DecoratorConnect
    \/ DecoratorReturn
    \/ \E h \in Handlers : CollectWrapper(h)
    \/ AppSend
    \/ QueueSignal
    \/ ExecuteAndSave
    \/ SaveRecord
    \/ DeleteRecord
    \/ RemoveModel

\* The cluster's workers keep taking tasks while there are any, and a save's
\* post_save is sent inside the save.
SpecLoop ==
    /\ Init
    /\ [][NextLoop]_vars
    /\ WF_<<queue, qsaves>>(WorkerTakes)
    /\ WF_vars(QueueSignal)

\* ============================================================== properties
\* A worker has run a task, and the function it ran was the bridge of the
\* handler whose wrapper submitted the task.
Ran == lastrun.t = "run" /\ lastrun.bridge # None
OwnBridge == Ran /\ lastrun.bridge.h = lastrun.entry.by

\* The instance the event of the last run carried (None when it carried none).
RunEventInstance == Get(lastrun.entry.event.kwargs, "instance")

\* The label names a model that was installed when the worker ran the task.
NamesInstalled(label) ==
    \E m \in lastrun.installed : label.s = <<m.app, ".", m.name>>

LabelsResolve ==
    /\ lastrun.entry.task.sender_label # None
           => NamesInstalled(lastrun.entry.task.sender_label)
    /\ lastrun.entry.task.instance_label # None
           => NamesInstalled(lastrun.entry.task.instance_label)

\* A row with the event instance's primary key existed when the worker ran.
RowAtRun ==
    /\ RunEventInstance.t = "instance"
    /\ RunEventInstance.pk.t = "int"
    /\ lastrun.rows[RunEventInstance.pk.n] # NoRow

\* C1 as stated: whenever a handler's bridge runs on the payload its wrapper
\* submitted, the handler is called with the event's sender and, when the
\* event carried an instance, with an instance of the same primary key.
C1_AsStated ==
    OwnBridge =>
        /\ lastrun.outcome = "returned"
        /\ lastrun.call.func = lastrun.entry.by
        /\ lastrun.call.sender = lastrun.entry.event.sender
        /\ RunEventInstance.t = "instance" =>
               /\ lastrun.call.instance.t = "instance"
               /\ lastrun.call.instance.pk = RunEventInstance.pk

\* C1 (amended): when a handler's bridge runs on the payload its wrapper
\* submitted and the payload's labels still name installed models, the
\* handler is called with the event's sender; its instance has the event
\* instance's model and primary key if a row with that key exists when the
\* bridge runs, and is None otherwise.
C1_SenderAndPk ==
    (OwnBridge /\ LabelsResolve) =>
        /\ lastrun.outcome = "returned"
        /\ lastrun.call.func = lastrun.entry.by
        /\ lastrun.call.sender = lastrun.entry.event.sender
        /\ IF RowAtRun
           THEN /\ lastrun.call.instance.t = "instance"
                /\ lastrun.call.instance.model = RunEventInstance.model
                /\ lastrun.call.instance.pk = RunEventInstance.pk
           ELSE lastrun.call.instance = None

C1_Witness ==
    /\ OwnBridge
    /\ lastrun.outcome = "returned"
    /\ lastrun.entry.event.sender = QSignalsModel
    /\ lastrun.call.sender = QSignalsModel
    /\ RowAtRun
    /\ lastrun.call.instance.t = "instance"
    /\ lastrun.call.instance.pk = RunEventInstance.pk
    /\ lastrun.call.instance.val # RunEventInstance.val

\* No row with the task's primary key existed when the worker ran it.
NoRowAtRun ==
    ~objects_get(QSignalsModel, lastrun.entry.task.instance_id, lastrun.rows).ok

\* What the handler is owed when the bridge finds no row: no instance, and the
\* submitted primary key under "_instance_pk".
GotInstancePk ==
    /\ lastrun.outcome = "returned"
    /\ lastrun.call.instance = None
    /\ "_instance_pk" \in DOMAIN lastrun.call.kwargs
    /\ lastrun.call.kwargs["_instance_pk"] = lastrun.entry.task.instance_id

\* C2 as stated: if the instance's row is deleted between the enqueue and the
\* bridge's run, the bridge does not fail and the handler gets instance None
\* and kwargs["_instance_pk"] equal to the submitted primary key.
C2_AsStated ==
    (Ran /\ lastrun.entry.existed /\ NoRowAtRun) => GotInstancePk

\* C2 (amended): if the payload carries an instance label, no row with the
\* submitted primary key exists when the bridge runs (it was deleted after the
\* enqueue, or never existed) and the payload's labels still name installed
\* models, the bridge does not fail and the handler gets instance None and
\* kwargs["_instance_pk"] equal to the submitted primary key.
C2_DeletedInstance ==
    (Ran /\ lastrun.entry.task.instance_label # None /\ NoRowAtRun /\ LabelsResolve)
        => GotInstancePk

C2_Witness ==
    /\ Ran
    /\ lastrun.entry.existed
    /\ NoRowAtRun
    /\ lastrun.entry.task.instance_id = IntV(1)
    /\ GotInstancePk

\* Every task a wrapper submitted and that is still known: queued, or the last
\* one a worker ran.
KnownEntries ==
    Range(queue) \cup (IF lastrun.t = "run" THEN {lastrun.entry} ELSE {})

\* The deliveries of the last send.
LastDeliveries == IF last.t = "event" THEN Range(last.deliveries) ELSE {}

\* C3: a handler registered with a sender filter S is never delivered, and
\* never submits a task for, an event whose sender is not S.
C3_SenderFilter ==
    /\ \A e \in KnownEntries :
           Registration(e.by).sender # None => e.event.sender = Registration(e.by).sender
    /\ \A d \in LastDeliveries :
           Registration(d.h).sender # None => last.sender = Registration(d.h).sender

\* h1 (filter QSignalsModel) is connected to post_save and alive, post_save was
\* sent by Article with h1 still alive, and nothing was delivered to h1.
C3_Witness ==
    /\ last.t = "event"
    /\ last.signal = post_save
    /\ last.sender = Article
    /\ IsConnected("h1", post_save)
    /\ IsConnected("h2", post_save)
    /\ collected = {}
    /\ \E d \in LastDeliveries : d.h = "h2" /\ d.did.task # None
    /\ \A d \in LastDeliveries : d.h # "h1"
    /\ \A e \in KnownEntries : e.by # "h1"

\* C4: an event whose sender's app label is "django_q" never leads to a task:
\* every wrapper it is delivered to returns at the guard, before the labels,
\* the serialization and async_task.
C4_InternalSenderSkipped ==
    /\ \A e \in KnownEntries :
           ~(e.event.sender.t = "model" /\ e.event.sender.app = "django_q")
    /\ \A d \in LastDeliveries :
           (last.sender.t = "model" /\ last.sender.app = "django_q")
               => d.did.steps = <<"guard">> /\ d.did.task = None

C4_Witness ==
    /\ last.t = "event"
    /\ last.sender = Task
    /\ \E d \in LastDeliveries : d.did.steps = <<"guard">> /\ d.did.task = None
    /\ queue = <<>>

\* The tasks in q that handler h's wrapper submitted for send number id.
SubmittedFor(q, h, id) == {i \in 1..Len(q) : q[i].by = h /\ q[i].ev = id}

\* Handler h was decorated against a list of two signals, s is one of them and
\* sender passes h's sender filter and is not one of django_q's models.
TwoSignalMatch(h, s, sender) ==
    /\ Registration(h).signal.t = "list"
    /\ Len(Registration(h).signal.l) = 2
    /\ s \in Range(Registration(h).signal.l)
    /\ Registration(h).sender \in {None, sender}
    /\ ~(sender.t = "model" /\ sender.app = "django_q")

\* C5: once a handler has been decorated against a list of two signals, every
\* send of either signal with a matching sender submits exactly one task for
\* that handler.
C5_OneTaskPerFiring ==
    [][nfired' = nfired + 1 =>
          \A h \in Handlers :
              (returned[h] # None /\ TwoSignalMatch(h, last'.signal, last'.sender))
                  => Cardinality(SubmittedFor(queue', h, last'.id)) = 1]_vars

\* The field names the event of the last run carried as update_fields.
RunEventUpdateFields == Get(lastrun.entry.event.kwargs, "update_fields")

\* C6: when an event carries update_fields as a set F, the payload carries a
\* sequence of F's elements and the handler is handed a frozenset equal to F,
\* whatever the order of the sequence.
C6_UpdateFieldsRoundTrip ==
    (Ran /\ RunEventUpdateFields.t = "frozenset") =>
        /\ lastrun.entry.task.signal_kwargs["update_fields"].t = "list"
        /\ Range(lastrun.entry.task.signal_kwargs["update_fields"].l) = RunEventUpdateFields.s
        /\ lastrun.outcome = "returned" =>
               lastrun.call.kwargs["update_fields"] = FrozensetV(RunEventUpdateFields.s)

\* A two-element set went through as <<"value", "name">> and came out equal.
C6_Witness ==
    /\ Ran
    /\ RunEventUpdateFields = FrozensetV({"name", "value"})
    /\ lastrun.entry.task.signal_kwargs["update_fields"] = ListV(<<"value", "name">>)
    /\ lastrun.outcome = "returned"
    /\ lastrun.call.kwargs["update_fields"] = FrozensetV({"name", "value"})

\* The event of the entry carried no instance: no such keyword, or None.
NoInstance(e) == Get(e.event.kwargs, "instance") = None

\* The payload of an event without an instance: no instance label and no
\* primary key.
NoInstancePayload(e) == e.task.instance_label = None /\ e.task.instance_id = None

\* A wrapper handed an event without an instance, from a sender outside
\* django_q, ran to its end and gave async_task a task without instance label
\* and primary key.
NoInstanceDelivered(d) ==
    (/\ Get(last.kwargs, "instance") = None
     /\ ~(last.sender.t = "model" /\ last.sender.app = "django_q"))
        => /\ d.did.task # None
           /\ d.did.task.instance_label = None
           /\ d.did.task.instance_id = None
           /\ d.did.ret = None

\* The handler was called with instance None and with exactly the keywords the
\* update_fields reconstruction makes of the payload's metadata: nothing was
\* looked up, so no "_instance_pk" was added.
CalledWithoutInstance ==
    /\ lastrun.outcome = "returned"
    /\ lastrun.call.instance = None
    /\ "_instance_pk" \notin DOMAIN lastrun.call.kwargs
    /\ DOMAIN lastrun.call.kwargs = DOMAIN lastrun.entry.task.signal_kwargs

\* C7 as stated: an event with instance None, or with no instance, raises
\* neither in the wrapper nor in the bridge: the task carries no instance
\* label and no primary key, no row is looked up and the handler is called
\* with instance None.
C7_AsStated ==
    /\ \A e \in KnownEntries : NoInstance(e) => NoInstancePayload(e)
    /\ \A d \in LastDeliveries : NoInstanceDelivered(d)
    /\ (Ran /\ NoInstance(lastrun.entry)) => CalledWithoutInstance

\* C7 (amended): the same, for the bridge provided the payload's sender label
\* still names an installed model (or the event had no sender).
C7_NoneInstance ==
    /\ \A e \in KnownEntries : NoInstance(e) => NoInstancePayload(e)
    /\ \A d \in LastDeliveries : NoInstanceDelivered(d)
    /\ (Ran /\ NoInstance(lastrun.entry) /\ LabelsResolve) => CalledWithoutInstance

\* An event with instance=None was run with no row in the table, and one
\* without the keyword exists too.
C7_Witness ==
    /\ Ran
    /\ "instance" \in DOMAIN lastrun.entry.event.kwargs
    /\ lastrun.entry.event.kwargs["instance"] = None
    /\ lastrun.entry.event.sender = QSignalsModel
    /\ lastrun.rows = [pk \in PKs |-> NoRow]
    /\ CalledWithoutInstance

\* The function is the signal_handler wrapper the decorator built for h.
IsWrapperOf(f, h) == f.t = "function" /\ f.kind = "signal_handler" /\ f.h = h

\* C8: when the decorator returns, it returns the original function (not the
\* wrapper, not the bridge), and the wrapper is by then connected to every
\* signal the decorator was given.
C8_ReturnsOriginal ==
    [][\A h \in Handlers :
          returned'[h] # returned[h] =>
              /\ returned'[h] = FuncV(h)
              /\ \A s \in Range(SignalsOf(Registration(h).signal)) :
                     \E i \in 1..Len(receivers'[s]) :
                         IsWrapperOf(receivers'[s][i].receiver, h)]_vars

C8_Witness ==
    /\ returned["h1"] = FuncV("h1")
    /\ returned["h2"] = FuncV("h2")
    /\ \E i \in 1..Len(receivers[post_save]) : IsWrapperOf(receivers[post_save][i].receiver, "h1")
    /\ \E i \in 1..Len(receivers[post_delete]) : IsWrapperOf(receivers[post_delete][i].receiver, "h1")
    /\ \E i \in 1..Len(receivers[post_save]) : IsWrapperOf(receivers[post_save][i].receiver, "h2")

\* The module attribute a decorated handler owes: its name suffixed "_task".
TaskAttr(h) == <<func_module(h), func_name(h) \o <<"_task">>>>

\* The task paths handler h's wrapper submits: those of its tasks, and the one
\* its connected wrapper holds.
SubmittedPaths(h) ==
    {e.task.func : e \in {x \in KnownEntries : x.by = h}}
        \cup UNION {{receivers[s][i].receiver.task_path :
                        i \in {j \in 1..Len(receivers[s]) : receivers[s][j].receiver.h = h}} :
                    s \in Signals}

\* C9: once a handler is decorated, its module has a callable attribute named
\* after it with the suffix "_task", and every task path its wrapper submits
\* resolves to that attribute.
C9_BridgeInstalled ==
    \A h \in Handlers :
        returned[h] # None =>
            /\ TaskAttr(h) \in DOMAIN attrs
            /\ attrs[TaskAttr(h)].t = "function"
            /\ \A p \in SubmittedPaths(h) : Resolve(p, attrs) = attrs[TaskAttr(h)]

C9_Witness ==
    /\ returned["h1"] # None
    /\ \E e \in KnownEntries :
           /\ e.by = "h1"
           /\ Resolve(e.task.func, attrs) = attrs[TaskAttr("h1")]
           /\ attrs[TaskAttr("h1")].kind = "async_task_func"

\* C10: when the payload's sender label or instance label names a model that
\* is not installed where the bridge runs, the bridge ends with the lookup
\* error and the handler is not called.
C10_TypeNotFound ==
    (Ran /\ ~LabelsResolve) =>
        /\ lastrun.outcome = "LookupError"
        /\ lastrun.call = None

\* The sender label was fine (or absent) and the instance label named a model
\* that was gone: the failure of line 103.
C10_Witness ==
    /\ Ran
    /\ lastrun.entry.task.sender_label # None => NamesInstalled(lastrun.entry.task.sender_label)
    /\ lastrun.entry.task.instance_label # None
    /\ ~NamesInstalled(lastrun.entry.task.instance_label)
    /\ lastrun.outcome = "LookupError"
    /\ lastrun.call = None

\* The keyword arguments of the last send that the wrapper treats by the type
\* of their value: all but signal, sender, instance and a non-None update_fields.
TypedKeys ==
    {key \in DOMAIN last.kwargs :
        /\ key \notin {"signal", "sender", "instance"}
        /\ ~(key = "update_fields" /\ last.kwargs[key] # None)}

\* The last send was delivered to wrapper d with a sender outside django_q.
Delivered(d) ==
    /\ d \in LastDeliveries
    /\ ~(Truthy(last.sender) /\ last.sender.app = "django_q")

\* C11: for every keyword argument of an event other than signal, sender,
\* instance and a non-None update_fields, the argument is in the metadata of the
\* submitted task, with its value, exactly when the value is a str, int,
\* float, bool, list, dict, tuple or None; otherwise it is left out, and the
\* task is submitted all the same.
C11_KeptByType ==
    \A d \in LastDeliveries :
        Delivered(d) =>
            /\ d.did.task # None
            /\ \A key \in TypedKeys :
                   /\ key \in DOMAIN d.did.task.signal_kwargs <=>
                          last.kwargs[key].t \in
                              {"str", "int", "float", "bool", "list", "dict", "tuple", "None"}
                   /\ key \in DOMAIN d.did.task.signal_kwargs =>
                          d.did.task.signal_kwargs[key] = last.kwargs[key]

\* A send carrying a value of every kind was delivered: the eight kinds are in
\* the task's metadata, the object, frozenset, model class and instance are not.
C11_Witness ==
    \E d \in LastDeliveries :
        /\ Delivered(d)
        /\ d.did.task # None
        /\ {"using", "count", "ratio", "raw", "tags", "meta", "pair", "nothing"}
               \subseteq DOMAIN d.did.task.signal_kwargs
        /\ {"origin", "changed", "model", "related"} \subseteq TypedKeys
        /\ {"origin", "changed", "model", "related"} \cap DOMAIN d.did.task.signal_kwargs = {}

\* C12: when the row of the event's instance exists as the bridge runs, the
\* instance the handler is called with carries the row's field values as they
\* are at that moment, not those the event's object had when the signal was
\* sent.
C12_FreshInstance ==
    (Ran /\ RowAtRun /\ lastrun.outcome = "returned") =>
        /\ lastrun.call.instance.t = "instance"
        /\ lastrun.call.instance.pk = RunEventInstance.pk
        /\ lastrun.call.instance.val = lastrun.rows[RunEventInstance.pk.n]

\* The row existed when the signal was sent with values "Test" and was saved
\* with "Updated" before the worker ran: the handler got "Updated".
C12_Witness ==
    /\ Ran
    /\ RowAtRun
    /\ lastrun.entry.existed
    /\ lastrun.outcome = "returned"
    /\ RunEventInstance.val = "Test"
    /\ lastrun.rows[RunEventInstance.pk.n] = "Updated"
    /\ lastrun.call.instance.val = "Updated"

\* Every task ever submitted stems from a signal the application sent, and
\* each wrapper called for such a signal submitted one task; the sends django_q
\* makes for its own saves submitted none.
OnlyApplicationTasks ==
    /\ \A e \in KnownEntries :
           /\ e.ev >= 1
           /\ ~(Truthy(e.event.sender) /\ e.event.sender.app = "django_q")
    /\ \A i, j \in 1..Len(queue) :
           (i # j /\ queue[i].ev = queue[j].ev) => queue[i].by # queue[j].by
    /\ \A d \in LastDeliveries : (d.did.task # None) <=> (last.id >= 1)

\* A task is queued, or a save of django_q has its post_save still to send.
Pending == queue # <<>> \/ qsaves > 0

\* C13: with a handler connected to post_save for every sender and a task
\* queue that sends post_save with its own models as sender whenever it stores
\* a task or saves a result, the tasks submitted are those of the application's
\* signals, one per wrapper called, and whenever something is pending the
\* system reaches a state with no queued task and no signal of the queue left
\* to send.
C13_NoFeedbackLoop == []OnlyApplicationTasks /\ (Pending ~> ~Pending)

\* The queue's post_save reached the wrapper of h2 (connected for every
\* sender), which submitted nothing, after a task ran; nothing is pending.
C13_Witness ==
    /\ last.t = "event"
    /\ last.id = 0
    /\ last.sender = Task
    /\ \E d \in LastDeliveries : d.h = "h2" /\ d.did.task = None
    /\ lastrun.t = "run"
    /\ ~Pending

\* The metadata dict the last run's bridge was given, and the same dict when
\* the bridge was done with it.
MetadataGiven == lastrun.entry.task.signal_kwargs
MetadataLeft == lastrun.signal_kwargs

\* C14 as stated: running the bridge leaves the metadata dict it was given
\* with the same keys and the same values, in every branch.
C14_AsStated == Ran => MetadataLeft = MetadataGiven

\* C14 (amended): running the bridge removes no key of the metadata dict it
\* was given and changes it in two keys at most: "_instance_pk" is set to the
\* submitted primary key when the row is not found, and a non-None
\* "update_fields" list is replaced by the frozenset of its elements; every
\* other key keeps its value.
C14_TwoKeysChange ==
    Ran =>
        /\ DOMAIN MetadataGiven \subseteq DOMAIN MetadataLeft
        /\ DOMAIN MetadataLeft \ DOMAIN MetadataGiven \subseteq {"_instance_pk"}
        /\ \A key \in DOMAIN MetadataGiven \ {"_instance_pk", "update_fields"} :
               MetadataLeft[key] = MetadataGiven[key]
        /\ "_instance_pk" \in DOMAIN MetadataLeft =>
               MetadataLeft["_instance_pk"] = lastrun.entry.task.instance_id
        /\ "update_fields" \in DOMAIN MetadataGiven =>
               MetadataLeft["update_fields"] =
                   IF MetadataGiven["update_fields"].t = "list"
                      /\ lastrun.outcome # "LookupError"
                   THEN FrozensetV(Range(MetadataGiven["update_fields"].l))
                   ELSE MetadataGiven["update_fields"]

\* A run that found no row and rebuilt update_fields: both keys changed, and
\* "created" is as it was.
C14_Witness ==
    /\ Ran
    /\ lastrun.outcome = "returned"
    /\ "_instance_pk" \in DOMAIN MetadataLeft \ DOMAIN MetadataGiven
    /\ "update_fields" \in DOMAIN MetadataGiven
    /\ MetadataGiven["update_fields"].t = "list"
    /\ MetadataLeft["update_fields"].t = "frozenset"
    /\ "created" \in DOMAIN MetadataGiven
    /\ MetadataLeft["created"] = MetadataGiven["created"]

\* The model class a label of the last run's payload names.
NamedBy(label, m) == m.t = "model" /\ label.s = <<m.app, ".", m.name>>

\* C15: a run of the bridge whose labels resolve calls the handler exactly
\* once, with the reconstructed sender and instance as the two positional
\* arguments and the metadata as the keyword arguments, and returns what the
\* handler returned; a run that fails reconstruction does not call it.
C15_CalledOnce ==
    /\ (Ran /\ LabelsResolve) =>
           LET task == lastrun.entry.task
           IN /\ lastrun.outcome = "returned"
              /\ Len(lastrun.calls) = 1
              /\ lastrun.calls[1].func = lastrun.bridge.h
              /\ IF task.sender_label = None
                 THEN lastrun.calls[1].sender = None
                 ELSE NamedBy(task.sender_label, lastrun.calls[1].sender)
              /\ IF task.instance_label = None \/ NoRowAtRun
                 THEN lastrun.calls[1].instance = None
                 ELSE /\ lastrun.calls[1].instance.t = "instance"
                      /\ NamedBy(task.instance_label, lastrun.calls[1].instance.model)
                      /\ lastrun.calls[1].instance.pk = task.instance_id
              /\ lastrun.calls[1].kwargs = MetadataLeft
              /\ DOMAIN MetadataGiven \subseteq DOMAIN lastrun.calls[1].kwargs
              /\ lastrun.result = HandlerResult(lastrun.bridge.h)
    /\ (Ran /\ ~LabelsResolve) => lastrun.calls = <<>>

\* The bridge of h2, whose function returns 1, ran on a payload with a sender,
\* an instance and metadata, called it once and returned 1.
C15_Witness ==
    /\ Ran
    /\ lastrun.bridge.h = "h2"
    /\ Len(lastrun.calls) = 1
    /\ lastrun.calls[1].sender = QSignalsModel
    /\ lastrun.calls[1].instance.t = "instance"
    /\ "created" \in DOMAIN lastrun.calls[1].kwargs
    /\ lastrun.result = IntV(1)

\* C16: when the registered function is a coroutine function, the bridge
\* calls it through async_to_sync: the function's body has run to its end when
\* the bridge returns, and the bridge returns the function's result, not a
\* coroutine object.
C16_CoroutineDriven ==
    (Ran /\ lastrun.outcome = "returned" /\ iscoroutinefunction(lastrun.bridge.h)) =>
        /\ lastrun.call.func = lastrun.bridge.h
        /\ lastrun.call.via = "async_to_sync"
        /\ lastrun.call.ran
        /\ lastrun.result.t # "coroutine"
        /\ lastrun.result = HandlerResult(lastrun.bridge.h)

\* The bridge of the coroutine function h2 returned.
C16_Witness ==
    /\ Ran
    /\ iscoroutinefunction(lastrun.bridge.h)
    /\ lastrun.outcome = "returned"
    /\ lastrun.call.via = "async_to_sync"
    /\ lastrun.call.ran
    /\ lastrun.result = HandlerResult("h2")

\* What delivery d of the last send gave async_task: one call, with the task
\* path of d's wrapper, the sender's label, the instance's label, the
\* instance's primary key or None, and a metadata dict; the wrapper did not
\* call the function, and returned None.
SubmittedOnce(d) ==
    LET instance == Get(last.kwargs, "instance")
        Calls(step) == Len(SelectSeq(d.did.steps, LAMBDA x : x = step))
    IN /\ Calls("async_task") = 1
       /\ Calls("handler") = 0
       /\ d.did.task # None
       /\ DOMAIN d.did.task =
              {"t", "func", "sender_label", "instance_label", "instance_id", "signal_kwargs"}
       /\ d.did.task.func = func_module(d.h) \o <<".">> \o func_name(d.h) \o <<"_task">>
       /\ d.did.task.sender_label =
              IF last.sender = None
              THEN None
              ELSE StrV(<<last.sender.app, ".", last.sender.name>>)
       /\ d.did.task.instance_label =
              IF instance = None
              THEN None
              ELSE StrV(<<instance.model.app, ".", instance.model.name>>)
       /\ d.did.task.instance_id = IF instance = None THEN None ELSE instance.pk
       /\ DOMAIN d.did.task.signal_kwargs \subseteq DOMAIN last.kwargs
       /\ d.did.ret = None

\* C17 as stated: each delivery of an event whose sender is not of django_q
\* makes one call of async_task with the five positional arguments, does not
\* call the function in the sending context, and returns None with the task
\* not yet run.
C17_AsStated ==
    \A d \in LastDeliveries :
        Delivered(d) => (SubmittedOnce(d) /\ d.inline = NoRun)

\* C17 (amended): each delivery of an event whose sender is not of django_q
\* makes one call of async_task with the five positional arguments, does not
\* call the function itself, and returns None; the task has run in the sending
\* context before the wrapper returns only where Q_CLUSTER's sync option is
\* set, and then async_task has run it.
C17_OneSubmission ==
    \A d \in LastDeliveries :
        Delivered(d) =>
            /\ SubmittedOnce(d)
            /\ (d.inline # NoRun) <=> last.sync
            /\ last.sync => d.inline.entry.task = d.did.task

\* A send with sync set reached both wrappers, and the task of one had run,
\* calling the function, before that wrapper returned.
C17_Witness ==
    /\ \E d \in LastDeliveries :
           /\ Delivered(d)
           /\ SubmittedOnce(d)
           /\ last.sync
           /\ d.inline.t = "run"
           /\ Len(d.inline.calls) = 1
    /\ Len(last.deliveries) = 2

\* C18: the metadata dict of a submitted task never has the keys "signal",
\* "sender" or "instance", whatever the event carried, and so the bridge's call
\* handler(sender, instance, **signal_kwargs) never fails for an argument
\* given twice.
C18_NoReservedKeys ==
    /\ \A e \in KnownEntries :
           {"signal", "sender", "instance"} \cap DOMAIN e.task.signal_kwargs = {}
    /\ \A d \in LastDeliveries :
           d.did.task # None =>
               {"signal", "sender", "instance"} \cap DOMAIN d.did.task.signal_kwargs = {}
    /\ Ran =>
           /\ lastrun.outcome # "TypeError"
           /\ lastrun.outcome = "returned" =>
                  {"sender", "instance"} \cap DOMAIN lastrun.call.kwargs = {}

\* The event carried sender=None and instance=None, values whose type the
\* serializer keeps under any other key, and another keyword that it kept; the
\* bridge's call returned.
C18_Witness ==
    /\ Ran
    /\ lastrun.entry.event.sender = None
    /\ "instance" \in DOMAIN lastrun.entry.event.kwargs
    /\ lastrun.entry.event.kwargs["instance"] = None
    /\ "created" \in DOMAIN lastrun.entry.task.signal_kwargs
    /\ {"signal", "sender", "instance"} \cap DOMAIN lastrun.entry.task.signal_kwargs = {}
    /\ lastrun.outcome = "returned"

\* A value that JSON can carry at every depth: a str, int, float, bool or
\* None, or a list, tuple or dict of such values.
RECURSIVE JsonSafe(_)
JsonSafe(v) ==
    CASE v.t \in {"str", "int", "float", "bool", "None"} -> TRUE
      [] v.t \in {"list", "tuple"} -> \A i \in DOMAIN v.l : JsonSafe(v.l[i])
      [] v.t = "dict" -> \A k \in DOMAIN v.d : JsonSafe(v.d[k])
      [] OTHER -> FALSE

\* The metadata dict holds JSON-safe values only; the elements of the
\* update_fields list are field names.
JsonSafeMetadata(signal_kwargs) ==
    \A key \in DOMAIN signal_kwargs :
        IF key = "update_fields" /\ signal_kwargs[key].t = "list"
        THEN Range(signal_kwargs[key].l) \subseteq Fields
        ELSE JsonSafe(signal_kwargs[key])

\* C19: every value of the metadata dict of every submitted task is JSON-safe
\* at every depth: no object is reachable from it, be it as an element of a
\* kept list, tuple or dict or of the update_fields list.
C19_JsonSafeAtDepth ==
    /\ \A e \in KnownEntries : JsonSafeMetadata(e.task.signal_kwargs)
    /\ \A d \in LastDeliveries :
           d.did.task # None => JsonSafeMetadata(d.did.task.signal_kwargs)

\* C20: after any sequence of registrations, two functions of the same name
\* in one module included, the task path each wrapper submits resolves to a
\* bridge that calls that wrapper's own function: a queued task's path names
\* the bridge of the handler that submitted it, and the bridge a worker ran
\* for a task was that handler's.
C20_OwnBridgeResolved ==
    /\ \A i \in 1..Len(queue) :
           /\ Resolve(queue[i].task.func, attrs) # None
           /\ Resolve(queue[i].task.func, attrs).h = queue[i].by
    /\ lastrun.t = "run" =>
           /\ lastrun.bridge # None
           /\ lastrun.bridge.h = lastrun.entry.by
           /\ lastrun.outcome = "returned" => lastrun.call.func = lastrun.entry.by

\* The submitted metadata with a non-None update_fields list rebuilt as the
\* frozenset of its elements.
SubmittedRebuilt ==
    [key \in DOMAIN MetadataGiven |->
        IF key = "update_fields" /\ MetadataGiven[key].t = "list"
        THEN FrozensetV(Range(MetadataGiven[key].l))
        ELSE MetadataGiven[key]]

\* The payload of the last run had an instance label and no row with the
\* submitted primary key existed when the worker ran it.
RecordGone == lastrun.entry.task.instance_label # None /\ NoRowAtRun

ConnectedWrappers(h) ==
    UNION {{receivers[s][i].receiver :
               i \in {j \in 1..Len(receivers[s]) : receivers[s][j].receiver.h = h}} :
           s \in Signals}

\* Whenever a wrapper is connected, a bridge is installed in its handler's
\* module under the name its task path ends with, and no task was submitted,
\* or run, with a path that did not resolve.
ConnectedResolves ==
    /\ \A h \in Handlers : \A w \in ConnectedWrappers(h) :
           /\ TaskAttr(h) \in DOMAIN attrs
           /\ attrs[TaskAttr(h)].kind = "async_task_func"
           /\ Resolve(w.task_path, attrs) = attrs[TaskAttr(h)]
    /\ \A i \in 1..Len(queue) : Resolve(queue[i].task.func, attrs) # None
    /\ lastrun.t = "run" => lastrun.outcome # "AttributeError"

\* A step that connects a wrapper of h to a signal it was not connected to
\* starts in a state where h's own bridge is installed.
InstalledBeforeConnect ==
    \A h \in Handlers : \A s \in Signals :
        (~IsConnected(h, s) /\ IsConnected(h, s)') =>
            /\ TaskAttr(h) \in DOMAIN attrs
            /\ attrs[TaskAttr(h)] = BridgeV(h, func_name(h) \o <<"_task">>)

\* C22: in every reachable state, a handler whose wrapper is connected to a
\* signal has had its bridge installed in its module: the installation comes
\* before the first connection, so that no signal, sent between the steps of a
\* registration or later, makes a wrapper submit a task path that does not
\* resolve.
C22_InstalledBeforeConnected == []ConnectedResolves /\ [][InstalledBeforeConnect]_vars

\* h1's decorator has connected post_save and not yet post_delete; a
\* post_save sent meanwhile made the wrapper submit a task, whose path resolves
\* to h1's bridge.
C22_Witness ==
    /\ pc.i = 1
    /\ pc.at = "connect"
    /\ IsConnected("h1", post_save)
    /\ ~IsConnected("h1", post_delete)
    /\ queue # <<>>
    /\ queue[1].by = "h1"
    /\ Resolve(queue[1].task.func, attrs) = BridgeV("h1", <<"handler", "_task">>)

\* The keyword arguments have update_fields=None; they have no such keyword.
NullUpdateFields(kwargs) ==
    "update_fields" \in DOMAIN kwargs /\ kwargs["update_fields"] = None
NoUpdateFields(kwargs) == "update_fields" \notin DOMAIN kwargs

\* C23: when an event carries update_fields=None, the submitted metadata has
\* the key with the value None and the handler is called with
\* update_fields=None, nothing being converted to a list or a set; when the
\* event carries no update_fields, neither the metadata nor the handler's
\* keywords have the key.
C23_NullUpdateFields ==
    /\ \A d \in LastDeliveries :
           Delivered(d) =>
               /\ NullUpdateFields(last.kwargs) =>
                      NullUpdateFields(d.did.task.signal_kwargs)
               /\ NoUpdateFields(last.kwargs) => NoUpdateFields(d.did.task.signal_kwargs)
    /\ (Ran /\ NullUpdateFields(lastrun.entry.event.kwargs)) =>
           /\ NullUpdateFields(MetadataGiven)
           /\ lastrun.outcome = "returned" => NullUpdateFields(lastrun.call.kwargs)
    /\ (Ran /\ NoUpdateFields(lastrun.entry.event.kwargs)) =>
           /\ NoUpdateFields(MetadataGiven)
           /\ lastrun.outcome = "returned" => NoUpdateFields(lastrun.call.kwargs)

\* A post_save of a created row, update_fields=None, went through the queue
\* and the handler was called with update_fields=None.
C23_Witness ==
    /\ Ran
    /\ NullUpdateFields(lastrun.entry.event.kwargs)
    /\ lastrun.entry.event.kwargs["created"] = BoolV(TRUE)
    /\ NullUpdateFields(MetadataGiven)
    /\ lastrun.outcome = "returned"
    /\ NullUpdateFields(lastrun.call.kwargs)

====
